---------------------------- MODULE Spec2Model ----------------------------
(***************************************************************************)
(* A model of the r5.rs lexer (src/src/lexer.rs) as a state machine, and   *)
(* of the evaluation that tests/eval_test.rs drives.  The lexer's state is *)
(* the Lexer struct (line, column, lookahead_buf), the position of its     *)
(* character stream, and the locals of the lex_token call that is in       *)
(* progress.  Every action of the lexer is one call of a stream primitive  *)
(* (lookahead, consume, read_while) at one of its call sites, with the     *)
(* control flow around it.  History variables keep what the calls have     *)
(* returned and which characters they took, and a second Lexer can be made *)
(* on the same text with a line comment put in (SpecComment).              *)
(*                                                                         *)
(* A character is a one-character string; the characters that TLA+ cannot  *)
(* write are named by their code point ("U+000B").  A text is a sequence   *)
(* of characters.  The stream is an in-memory buffer: read_char returns    *)
(* the next character or EndOfFile, and never another failure.             *)
(***************************************************************************)
EXTENDS Integers, Sequences, FiniteSets, TLC

(***************************************************************************)
(* Bounds.                                                                 *)
(***************************************************************************)
MaxLen == 3

None == "None"

(***************************************************************************)
(* Character classes.                                                      *)
(***************************************************************************)
Whitespace == {"\t", "\n", "U+000B", "\f", "\r", " "}

Letters ==
  {"a","b","c","d","e","f","g","h","i","j","k","l","m",
   "n","o","p","q","r","s","t","u","v","w","x","y","z",
   "A","B","C","D","E","F","G","H","I","J","K","L","M",
   "N","O","P","Q","R","S","T","U","V","W","X","Y","Z"}

Digits == {"0","1","2","3","4","5","6","7","8","9"}

\* char::is_numeric is the Unicode property (categories Nd, Nl, No): the
\* ASCII digits and, among others, SUPERSCRIPT TWO and ARABIC-INDIC DIGIT THREE.
UnicodeNumeric == Digits \cup {"U+00B2", "U+0663"}

\* char::is_alphanumeric: Unicode alphabetic or numeric.
UnicodeAlphanumeric == Letters \cup {"U+00E9"} \cup UnicodeNumeric

is_whitespace(ch) == ch \in Whitespace

Initial ==
  Letters \cup {"!", "$", "%", "&", "*", "/", ":", "<", "=", ">", "?", "^", "_", "~"}

is_initial(ch) == ch \in Initial

Subsequent == Initial \cup Digits \cup {"+", "-", ".", "@"}

is_subsequent(ch) == ch \in Subsequent

is_numeric(ch) == ch \in UnicodeNumeric

is_alphanumeric(ch) == ch \in UnicodeAlphanumeric

(***************************************************************************)
(* The characters the inputs are drawn from: at least one of every class   *)
(* the lexer tells apart.                                                  *)
(***************************************************************************)
Alphabet ==
  {" ", "\n", ";", "(", ")", "+", "-", ">", ".", "#", "\\", "t", "T", "f", "F", "1",
   "U+00B2"}

Char == Alphabet \cup Whitespace \cup Subsequent \cup UnicodeAlphanumeric

\* The closure of a comment's read_while with a space ending the comment too.
NotNewlineNorSpace == Char \ {"\n", " "}

NotNewline == Char \ {"\n"}

\* Longer inputs: the surface syntax the lexer is written for.
Examples ==
  { <<"-", ">", "b", "a", "r">>,
    <<"#", "\\", "n", "e", "w", "l", "i", "n", "e", " ", "1", "2", "3">>,
    <<"(", "a", " ", ".", " ", "b", ")">>,
    <<"(", "+", " ", "1", " ", ";", "c", "\n", " ", "2", ")">>,
    <<"(", "+", " ", "1", " ", "2", ")">>,
    <<"f", "o", "o">>,
    <<"1", "2", "3">>,
    <<"#", "\\", "a">>,
    <<"a", " ", ";", "x", "\n", " ", ";", "\n", "b">> }

Inputs == UNION {[1..n -> Alphabet] : n \in 0..MaxLen} \cup Examples

VARIABLES
  input,          \* the characters of the stream the Lexer was made on
  pos,            \* how many of them read_char has returned
  line,           \* Lexer.line
  column,         \* Lexer.column
  lookahead_buf,  \* Lexer.lookahead_buf: None or a character
  pc,             \* the call site lex_token is at; "idle" between calls
  consumed,       \* consume_whitespace's local
  tok_line,       \* lex_token's local line
  tok_col,        \* lex_token's local col
  c,              \* lex_token's local c
  end_of_token,   \* lex_token's local end_of_token
  s,              \* the String a lex_* helper is building
  result,         \* what the last lex_token call returned
  delivered,      \* history: the characters taken out of the stream and the buffer
  call_pos,       \* history: how many characters had been taken when lex_token was called
  tok_start,      \* history: the index in input of the character the token began at
  results,        \* history: what the calls returned, up to the first EOF token
  skipped,        \* history: the indices in input of the whitespace characters that
                  \* consume_whitespace took, the newline that ends a comment included
  original,       \* the stream and the results of the Lexer made before this one
  \* The evaluation pipeline of tests/eval_test.rs (compiler and runtime):
  program,        \* the datum parse_datum gave for the source text
  vm_phase,       \* "off", "source", "run", "done" or "error"
  vm_code,        \* the code sequence the runtime is executing
  vm_ip,          \* the index in vm_code of the next instruction
  vm_stack,       \* the operand stack
  vm_frames,      \* the environment frames allocated so far: [vals, parent]
  vm_cur,         \* the current-environment-frame register (0: no frame)
  vm_calls,       \* the callers to return to: [code, ip, frame, base]
  vm_result       \* the final value, or the failure

lexer_vars == <<input, pos, line, column, lookahead_buf, pc, consumed,
                tok_line, tok_col, c, end_of_token, s, result, delivered, call_pos,
                tok_start, results, skipped, original>>

vm_vars == <<program, vm_phase, vm_code, vm_ip, vm_stack, vm_frames, vm_cur, vm_calls,
             vm_result>>

vars == <<lexer_vars, vm_vars>>

(***************************************************************************)
(* The Lexer's fields and its stream as one value.                         *)
(***************************************************************************)
Lx == [line |-> line, column |-> column, lookahead_buf |-> lookahead_buf, pos |-> pos]

(***************************************************************************)
(* Results.  Ok(TokenWrapper) and Err(ParserError) share one record shape. *)
(***************************************************************************)
wrap(l, col, t, txt) ==
  [ok |-> TRUE, line |-> l, column |-> col, token |-> t, text |-> txt,
   kind |-> None, ch |-> None]

make_error(lx, k, ch) ==
  [ok |-> FALSE, line |-> lx.line, column |-> lx.column, token |-> None, text |-> <<>>,
   kind |-> k, ch |-> ch]

NoResult ==
  [ok |-> FALSE, line |-> 0, column |-> 0, token |-> None, text |-> <<>>,
   kind |-> None, ch |-> None]

\* No Lexer was made before this one.
NoOriginal == [stream |-> <<>>, results |-> <<>>, at |-> 0]

(***************************************************************************)
(* Buffer::read_char on the stream.                                        *)
(***************************************************************************)
read_char(lx) ==
  IF lx.pos < Len(input)
    THEN [ok |-> TRUE, ch |-> input[lx.pos + 1], kind |-> None,
          lx |-> [lx EXCEPT !.pos = @ + 1]]
    ELSE [ok |-> FALSE, ch |-> None, kind |-> "EndOfFile", lx |-> lx]

\* lookahead() without its store into lookahead_buf.
lookahead_unbuffered(lx) ==
  IF lx.lookahead_buf # None
    THEN [ok |-> TRUE, ch |-> lx.lookahead_buf, kind |-> None, lx |-> lx]
    ELSE read_char(lx)

lookahead(lx) ==
  IF lx.lookahead_buf # None
    THEN [ok |-> TRUE, ch |-> lx.lookahead_buf, kind |-> None, lx |-> lx]
    ELSE LET r == read_char(lx)
         IN  IF r.ok
               THEN [r EXCEPT !.lx = [r.lx EXCEPT !.lookahead_buf = r.ch]]
               ELSE r

advance(lx, ch) ==
  IF ch = "\n"
    THEN [lx EXCEPT !.line = @ + 1, !.column = 1]
    ELSE [lx EXCEPT !.column = @ + 1]

\* read_while's loop with the end of the stream passed on as an error.
RECURSIVE read_loop_eof_error(_, _, _)
read_loop_eof_error(lx, str, f) ==
  LET r == read_char(lx)
  IN  IF r.ok
        THEN IF r.ch \in f
               THEN read_loop_eof_error(advance(r.lx, r.ch), Append(str, r.ch), f)
               ELSE [ok |-> TRUE, text |-> str, kind |-> None,
                     lx |-> [r.lx EXCEPT !.lookahead_buf = r.ch]]
        ELSE [ok |-> FALSE, text |-> <<>>, kind |-> "UnderlyingError", lx |-> r.lx]

\* The loop of read_while: f is given as the set of characters it accepts.
RECURSIVE read_loop(_, _, _)
read_loop(lx, str, f) ==
  LET r == read_char(lx)
  IN  IF r.ok
        THEN IF r.ch \in f
               THEN read_loop(advance(r.lx, r.ch), Append(str, r.ch), f)
               ELSE [ok |-> TRUE, text |-> str, kind |-> None,
                     lx |-> [r.lx EXCEPT !.lookahead_buf = r.ch]]
        ELSE IF r.kind = "EndOfFile"
               THEN [ok |-> TRUE, text |-> str, kind |-> None, lx |-> r.lx]
               ELSE [ok |-> FALSE, text |-> <<>>, kind |-> "UnderlyingError", lx |-> r.lx]

read_while(lx, f) ==
  IF lx.lookahead_buf = None
    THEN read_loop(lx, <<>>, f)
    ELSE IF lx.lookahead_buf \in f
           THEN read_loop(advance([lx EXCEPT !.lookahead_buf = None], lx.lookahead_buf),
                          <<lx.lookahead_buf>>, f)
           ELSE [ok |-> TRUE, text |-> <<>>, kind |-> None, lx |-> lx]

\* consume() handing out the next character and leaving it in the stream.
consume_without_taking(lx) == lookahead(lx)

consume(lx) ==
  IF lx.lookahead_buf # None
    THEN [ok |-> TRUE, ch |-> lx.lookahead_buf, kind |-> None,
          lx |-> advance([lx EXCEPT !.lookahead_buf = None], lx.lookahead_buf)]
    ELSE LET r == read_char(lx)
         IN  IF r.ok THEN [r EXCEPT !.lx = advance(r.lx, r.ch)] ELSE r

is_end_of_token(lx) ==
  LET r == lookahead(lx)
  IN  IF r.ok
        THEN [ok |-> TRUE, val |-> is_whitespace(r.ch), lx |-> r.lx]
        ELSE IF r.kind = "EndOfFile"
               THEN [ok |-> TRUE, val |-> TRUE, lx |-> r.lx]
               ELSE [ok |-> FALSE, val |-> FALSE, lx |-> r.lx]

(***************************************************************************)
(* Frames of the actions.                                                  *)
(***************************************************************************)
SetLx(lx) ==
  /\ line' = lx.line
  /\ column' = lx.column
  /\ lookahead_buf' = lx.lookahead_buf
  /\ pos' = lx.pos

\* The token of the end of input has been returned.
Ended == results # <<>> /\ results[Len(results)].ok /\ results[Len(results)].token = "EOF"

\* lex_token returns r: its locals die.
LexReturn(r) ==
  /\ result' = r
  /\ results' = IF Ended THEN results ELSE Append(results, r)
  /\ pc' = "idle"
  /\ consumed' = FALSE
  /\ tok_line' = 0
  /\ tok_col' = 0
  /\ c' = None
  /\ end_of_token' = FALSE
  /\ s' = <<>>

Init ==
  /\ input \in Inputs
  /\ pos = 0
  /\ line = 1
  /\ column = 1
  /\ lookahead_buf = None
  /\ pc = "idle"
  /\ consumed = FALSE
  /\ tok_line = 0
  /\ tok_col = 0
  /\ c = None
  /\ end_of_token = FALSE
  /\ s = <<>>
  /\ result = NoResult
  /\ delivered = <<>>
  /\ call_pos = 0
  /\ tok_start = 0
  /\ results = <<>>
  /\ skipped = {}
  /\ original = NoOriginal
  /\ program = None
  /\ vm_phase = "off"
  /\ vm_code = <<>>
  /\ vm_ip = 0
  /\ vm_stack = <<>>
  /\ vm_frames = <<>>
  /\ vm_cur = 0
  /\ vm_calls = <<>>
  /\ vm_result = None

(***************************************************************************)
(* lex_token is called.                                                    *)
(***************************************************************************)
LexToken_Call ==
  /\ pc = "idle"
  /\ pc' = "ws_read"
  /\ call_pos' = pos - (IF lookahead_buf # None THEN 1 ELSE 0)
  /\ UNCHANGED <<input, original, skipped, pos, line, column, lookahead_buf, consumed,
                 tok_line, tok_col, c, end_of_token, s, result, results, delivered,
                 tok_start>>
  /\ UNCHANGED vm_vars

(***************************************************************************)
(* consume_whitespace: read_while(is_whitespace), the head of its loop.    *)
(***************************************************************************)
ConsumeWhitespace_ReadWhile ==
  /\ pc = "ws_read"
  /\ LET r == read_while(Lx, Whitespace)
     IN  /\ SetLx(r.lx)
         /\ delivered' = delivered \o r.text
         /\ IF r.ok
              THEN /\ consumed' = (consumed \/ Len(r.text) > 0)
                   /\ pc' = "ws_peek"
                   /\ UNCHANGED <<tok_line, tok_col, c, end_of_token, s, result, results>>
              ELSE LexReturn(make_error(r.lx, r.kind, None))
         /\ LET from == pos - (IF lookahead_buf # None THEN 1 ELSE 0)
            IN  skipped' = skipped \cup ((from + 1)..(from + Len(r.text)))
  /\ UNCHANGED <<input, original, call_pos, tok_start>>
  /\ UNCHANGED vm_vars

(***************************************************************************)
(* consume_whitespace: the match on lookahead().                           *)
(***************************************************************************)
ConsumeWhitespace_Lookahead ==
  /\ pc = "ws_peek"
  /\ LET r == lookahead(Lx)
     IN  /\ SetLx(r.lx)
         /\ IF r.ok /\ r.ch = ";"
              THEN /\ pc' = "ws_comment"
                   /\ UNCHANGED <<consumed, tok_line, tok_col, c, end_of_token, s,
                                  result, results>>
              ELSE IF r.ok \/ r.kind = "EndOfFile"
                     THEN /\ pc' = "first"
                          /\ UNCHANGED <<consumed, tok_line, tok_col, c, end_of_token, s,
                                         result, results>>
                     ELSE LexReturn(make_error(r.lx, "UnderlyingError", None))
  /\ UNCHANGED <<input, original, skipped, delivered, call_pos, tok_start>>
  /\ UNCHANGED vm_vars

\* The arm of a comment with consume_whitespace returning after it, the
\* loop not taken again.
ConsumeWhitespace_CommentOnce ==
  /\ pc = "ws_comment"
  /\ LET r == read_while(Lx, NotNewline)
     IN  IF r.ok
           THEN /\ SetLx([r.lx EXCEPT !.lookahead_buf = None])
                /\ delivered' = delivered \o r.text \o
                                  (IF r.lx.lookahead_buf # None
                                     THEN <<r.lx.lookahead_buf>> ELSE <<>>)
                /\ skipped' = skipped \cup
                                (IF r.lx.lookahead_buf # None THEN {r.lx.pos} ELSE {})
                /\ consumed' = TRUE
                /\ pc' = "first"
                /\ UNCHANGED <<tok_line, tok_col, c, end_of_token, s, result, results>>
           ELSE /\ SetLx(r.lx)
                /\ delivered' = delivered \o r.text
                /\ UNCHANGED skipped
                /\ LexReturn(make_error(r.lx, r.kind, None))
  /\ UNCHANGED <<input, original, call_pos, tok_start>>
  /\ UNCHANGED vm_vars

(***************************************************************************)
(* consume_whitespace: the arm of a comment.  read_while(|c| c != '\n'),   *)
(* then the buffer is emptied.                                             *)
(***************************************************************************)
ConsumeWhitespace_Comment ==
  /\ pc = "ws_comment"
  /\ LET r == read_while(Lx, NotNewline)
     IN  IF r.ok
           THEN /\ SetLx([r.lx EXCEPT !.lookahead_buf = None])
                /\ delivered' = delivered \o r.text \o
                                  (IF r.lx.lookahead_buf # None
                                     THEN <<r.lx.lookahead_buf>> ELSE <<>>)
                /\ skipped' = skipped \cup
                                (IF r.lx.lookahead_buf # None THEN {r.lx.pos} ELSE {})
                /\ consumed' = TRUE
                /\ pc' = "ws_read"
                /\ UNCHANGED <<tok_line, tok_col, c, end_of_token, s, result, results>>
           ELSE /\ SetLx(r.lx)
                /\ delivered' = delivered \o r.text
                /\ UNCHANGED skipped
                /\ LexReturn(make_error(r.lx, r.kind, None))
  /\ UNCHANGED <<input, original, call_pos, tok_start>>
  /\ UNCHANGED vm_vars

(***************************************************************************)
(* lex_token: line and col are taken, and the first character consumed.    *)
(***************************************************************************)
LexToken_Consume ==
  /\ pc = "first"
  /\ LET r == consume(Lx)
     IN  /\ SetLx(r.lx)
         /\ IF r.ok
              THEN /\ tok_line' = line
                   /\ tok_col' = column
                   /\ c' = r.ch
                   /\ delivered' = Append(delivered, r.ch)
                   /\ tok_start' = r.lx.pos
                   /\ pc' = "eot"
                   /\ UNCHANGED <<consumed, end_of_token, s, result, results>>
              ELSE /\ UNCHANGED delivered
                   /\ tok_start' = r.lx.pos + 1
                   /\ IF r.kind = "EndOfFile"
                        THEN LexReturn(wrap(line, column, "EOF", <<>>))
                        ELSE LexReturn(make_error(r.lx, "UnderlyingError", None))
  /\ UNCHANGED <<input, original, skipped, call_pos>>
  /\ UNCHANGED vm_vars

(***************************************************************************)
(* lex_token: end_of_token = is_end_of_token().                            *)
(***************************************************************************)
LexToken_IsEndOfToken ==
  /\ pc = "eot"
  /\ LET r == is_end_of_token(Lx)
     IN  /\ SetLx(r.lx)
         /\ IF r.ok
              THEN /\ end_of_token' = r.val
                   /\ pc' = "classify"
                   /\ UNCHANGED <<consumed, tok_line, tok_col, c, s, result, results>>
              ELSE LexReturn(make_error(r.lx, "UnderlyingError", None))
  /\ UNCHANGED <<input, original, skipped, delivered, call_pos, tok_start>>
  /\ UNCHANGED vm_vars

(***************************************************************************)
(* lex_token: the chain of tests on c.  An arm that needs the stream goes  *)
(* on to its call site; the others return.                                 *)
(***************************************************************************)
\* The chain of tests with `+` accepted whatever follows it.
classify_plus_always(ch, eot) ==
  IF is_initial(ch) THEN "ident"
  ELSE IF ch = "+" THEN "plus"
  ELSE IF ch = "-" THEN (IF eot THEN "minus" ELSE "minus_peek")
  ELSE IF ch = "(" THEN "open"
  ELSE IF ch = ")" THEN "close"
  ELSE IF ch = "." /\ eot THEN "dot"
  ELSE IF ch = "#" THEN "hash"
  ELSE IF is_numeric(ch) THEN "numeric"
  ELSE "invalid"

\* The chain of tests with `-` starting an identifier whatever follows it.
classify_minus_ident(ch, eot) ==
  IF is_initial(ch) THEN "ident"
  ELSE IF ch = "+" /\ eot THEN "plus"
  ELSE IF ch = "-" THEN (IF eot THEN "minus" ELSE "ident")
  ELSE IF ch = "(" THEN "open"
  ELSE IF ch = ")" THEN "close"
  ELSE IF ch = "." /\ eot THEN "dot"
  ELSE IF ch = "#" THEN "hash"
  ELSE IF is_numeric(ch) THEN "numeric"
  ELSE "invalid"

\* The chain of tests with `.` accepted whatever follows it.
classify_dot_always(ch, eot) ==
  IF is_initial(ch) THEN "ident"
  ELSE IF ch = "+" /\ eot THEN "plus"
  ELSE IF ch = "-" THEN (IF eot THEN "minus" ELSE "minus_peek")
  ELSE IF ch = "(" THEN "open"
  ELSE IF ch = ")" THEN "close"
  ELSE IF ch = "." THEN "dot"
  ELSE IF ch = "#" THEN "hash"
  ELSE IF is_numeric(ch) THEN "numeric"
  ELSE "invalid"

\* The arm of lex_token's chain of tests that c and end_of_token select.
classify(ch, eot) ==
  IF is_initial(ch) THEN "ident"
  ELSE IF ch = "+" /\ eot THEN "plus"
  ELSE IF ch = "-" THEN (IF eot THEN "minus" ELSE "minus_peek")
  ELSE IF ch = "(" THEN "open"
  ELSE IF ch = ")" THEN "close"
  ELSE IF ch = "." /\ eot THEN "dot"
  ELSE IF ch = "#" THEN "hash"
  ELSE IF is_numeric(ch) THEN "numeric"
  ELSE "invalid"

\* The match on c0 with the lower-case letters only.
hash_arm_lowercase(c0) ==
  IF c0 = "t" THEN "True"
  ELSE IF c0 = "f" THEN "False"
  ELSE IF c0 = "\\" THEN "char"
  ELSE "invalid"

\* The arm of the match on c0, the character after '#'.
hash_arm(c0) ==
  IF c0 \in {"t", "T"} THEN "True"
  ELSE IF c0 \in {"f", "F"} THEN "False"
  ELSE IF c0 = "\\" THEN "char"
  ELSE "invalid"

\* The end of the stream in the middle of a token taken for the end of input.
eof_error_as_token(lx, k) ==
  IF k = "EndOfFile"
    THEN wrap(lx.line, lx.column, "EOF", <<>>)
    ELSE make_error(lx, "UnderlyingError", None)

\* The kind of error a failed consume() in the middle of a token becomes.
eof_error(lx, k) ==
  IF k = "EndOfFile"
    THEN make_error(lx, "UnexpectedEOF", None)
    ELSE make_error(lx, "UnderlyingError", None)

Goto(l, str) ==
  /\ pc' = l
  /\ s' = str
  /\ UNCHANGED <<consumed, tok_line, tok_col, c, end_of_token, result, results>>

LexToken_Classify ==
  /\ pc = "classify"
  /\ LET arm == classify(c, end_of_token)
     IN  CASE arm = "ident" -> Goto("ident", <<c>>)
           [] arm = "plus" -> LexReturn(wrap(tok_line, tok_col, "Identifier", <<"+">>))
           [] arm = "minus" -> LexReturn(wrap(tok_line, tok_col, "Identifier", <<"-">>))
           [] arm = "minus_peek" -> Goto("minus_peek", <<>>)
           [] arm = "open" -> LexReturn(wrap(tok_line, tok_col, "OpenParen", <<>>))
           [] arm = "close" -> LexReturn(wrap(tok_line, tok_col, "CloseParen", <<>>))
           [] arm = "dot" -> LexReturn(wrap(tok_line, tok_col, "Dot", <<>>))
           [] arm = "hash" -> Goto("hash", <<>>)
           [] arm = "numeric" -> Goto("numeric", <<c>>)
           [] OTHER -> LexReturn(make_error(Lx, "InvalidCharacter", c))
  /\ UNCHANGED <<input, original, skipped, pos, line, column, lookahead_buf, delivered,
                 call_pos, tok_start>>
  /\ UNCHANGED vm_vars

(***************************************************************************)
(* lex_token, c == '-' and not end_of_token: the match on lookahead().     *)
(***************************************************************************)
LexToken_MinusLookahead ==
  /\ pc = "minus_peek"
  /\ LET r == lookahead(Lx)
     IN  /\ SetLx(r.lx)
         /\ IF r.ok /\ r.ch = ">" THEN Goto("ident", <<"-">>)
            ELSE IF r.ok THEN LexReturn(make_error(r.lx, "InvalidCharacter", r.ch))
            ELSE IF r.kind = "EndOfFile"
              THEN LexReturn(wrap(tok_line, tok_col, "Identifier", <<"-">>))
            ELSE LexReturn(make_error(r.lx, "UnderlyingError", None))
  /\ UNCHANGED <<input, original, skipped, delivered, call_pos, tok_start>>
  /\ UNCHANGED vm_vars

\* lex_ident going on through initial characters only.
LexIdent_InitialOnly ==
  /\ pc = "ident"
  /\ LET r == read_while(Lx, Initial)
     IN  /\ SetLx(r.lx)
         /\ delivered' = delivered \o r.text
         /\ IF r.ok
              THEN LexReturn(wrap(tok_line, tok_col, "Identifier", s \o r.text))
              ELSE LexReturn(make_error(r.lx, r.kind, None))
  /\ UNCHANGED <<input, original, skipped, call_pos, tok_start>>
  /\ UNCHANGED vm_vars

(***************************************************************************)
(* lex_ident(initial), called with s = initial.                            *)
(***************************************************************************)
LexIdent ==
  /\ pc = "ident"
  /\ LET r == read_while(Lx, Subsequent)
     IN  /\ SetLx(r.lx)
         /\ delivered' = delivered \o r.text
         /\ IF r.ok
              THEN LexReturn(wrap(tok_line, tok_col, "Identifier", s \o r.text))
              ELSE LexReturn(make_error(r.lx, r.kind, None))
  /\ UNCHANGED <<input, original, skipped, call_pos, tok_start>>
  /\ UNCHANGED vm_vars

(***************************************************************************)
(* lex_token, c == '#': c0 = consume(), and the match on c0.               *)
(***************************************************************************)
LexToken_HashConsume ==
  /\ pc = "hash"
  /\ LET r == consume(Lx)
     IN  /\ SetLx(r.lx)
         /\ IF ~r.ok
              THEN /\ UNCHANGED delivered
                   /\ LexReturn(eof_error(r.lx, r.kind))
              ELSE /\ delivered' = Append(delivered, r.ch)
                   /\ LET arm == hash_arm(r.ch)
                      IN  CASE arm = "True" -> LexReturn(wrap(tok_line, tok_col, "True", <<>>))
                            [] arm = "False" -> LexReturn(wrap(tok_line, tok_col, "False", <<>>))
                            [] arm = "char" -> Goto("char", <<>>)
                            [] OTHER -> LexReturn(make_error(r.lx, "InvalidCharacter", c))
  /\ UNCHANGED <<input, original, skipped, call_pos, tok_start>>
  /\ UNCHANGED vm_vars

(***************************************************************************)
(* lex_char: its consume().                                                *)
(***************************************************************************)
LexChar_Consume ==
  /\ pc = "char"
  /\ LET r == consume(Lx)
     IN  /\ SetLx(r.lx)
         /\ IF r.ok
              THEN /\ delivered' = Append(delivered, r.ch)
                   /\ Goto("char_rest", <<r.ch>>)
              ELSE /\ UNCHANGED delivered
                   /\ LexReturn(eof_error(r.lx, r.kind))
  /\ UNCHANGED <<input, original, skipped, call_pos, tok_start>>
  /\ UNCHANGED vm_vars

(***************************************************************************)
(* lex_char: its read_while(|c| c.is_alphanumeric()).                      *)
(***************************************************************************)
LexChar_ReadWhile ==
  /\ pc = "char_rest"
  /\ LET r == read_while(Lx, UnicodeAlphanumeric)
     IN  /\ SetLx(r.lx)
         /\ delivered' = delivered \o r.text
         /\ IF r.ok
              THEN LexReturn(wrap(tok_line, tok_col, "Character", s \o r.text))
              ELSE LexReturn(make_error(r.lx, r.kind, None))
  /\ UNCHANGED <<input, original, skipped, call_pos, tok_start>>
  /\ UNCHANGED vm_vars

(***************************************************************************)
(* lex_numeric(init), called with s = init.                                *)
(***************************************************************************)
LexNumeric ==
  /\ pc = "numeric"
  /\ LET r == read_while(Lx, UnicodeNumeric)
     IN  /\ SetLx(r.lx)
         /\ delivered' = delivered \o r.text
         /\ IF r.ok
              THEN LexReturn(wrap(tok_line, tok_col, "Numeric", s \o r.text))
              ELSE LexReturn(make_error(r.lx, r.kind, None))
  /\ UNCHANGED <<input, original, skipped, call_pos, tok_start>>
  /\ UNCHANGED vm_vars

Next ==
  \/ LexToken_Call
  \/ ConsumeWhitespace_ReadWhile
  \/ ConsumeWhitespace_Lookahead
  \/ ConsumeWhitespace_Comment
  \/ LexToken_Consume
  \/ LexToken_IsEndOfToken
  \/ LexToken_Classify
  \/ LexToken_MinusLookahead
  \/ LexIdent
  \/ LexToken_HashConsume
  \/ LexChar_Consume
  \/ LexChar_ReadWhile
  \/ LexNumeric

Spec == Init /\ [][Next]_vars

(***************************************************************************)
(* The same text with and without a comment.  When a Lexer has returned    *)
(* the EOF token, a second Lexer is made on the same characters with one   *)
(* line comment put in, right after a whitespace character that            *)
(* consume_whitespace took or at the very beginning; what the first Lexer  *)
(* returned is kept in original.                                           *)
(***************************************************************************)
CommentAlphabet == {" ", "\n", ";", "(", "+", "-", "#", "\\", "t"}

\* The line comments that are put in: `;`, characters other than a newline,
\* and the newline.
Comments ==
  { <<";", "\n">>,
    <<";", " ", "t", "\n">>,
    <<";", ";", "(", "\n">> }

InsertComment ==
  /\ pc = "idle"
  /\ Ended
  /\ original = NoOriginal
  /\ \E k \in skipped \cup {0}, cm \in Comments :
       /\ input' = SubSeq(input, 1, k) \o cm \o SubSeq(input, k + 1, Len(input))
       /\ original' = [stream |-> input, results |-> results, at |-> k]
  /\ pos' = 0
  /\ line' = 1
  /\ column' = 1
  /\ lookahead_buf' = None
  /\ result' = NoResult
  /\ results' = <<>>
  /\ delivered' = <<>>
  /\ call_pos' = 0
  /\ tok_start' = 0
  /\ skipped' = {}
  /\ UNCHANGED <<pc, consumed, tok_line, tok_col, c, end_of_token, s>>
  /\ UNCHANGED vm_vars

InitComment ==
  /\ Init
  /\ input \in Examples \/ \A i \in 1..Len(input) : input[i] \in CommentAlphabet

NextComment ==
  \/ Next
  \/ InsertComment

SpecComment == InitComment /\ [][NextComment]_vars

(***************************************************************************)
(*            The compiler and the runtime (tests/eval_test.rs)            *)
(*                                                                         *)
(* The test compiles a parsed datum against a global environment that      *)
(* binds lambda and +, and runs the bytecode.  The compiler and the        *)
(* runtime are modelled from their specification: a datum is compiled by   *)
(* an operator, and every action of the runtime executes one instruction.  *)
(***************************************************************************)

\* Datum: the parsed symbolic values.
Boolean(b) == [tag |-> "Boolean", b |-> b]

Number(txt) == [tag |-> "Number", text |-> txt]

Symbol(n) == [tag |-> "Symbol", name |-> n]

Pair(h, tl) == [tag |-> "Pair", head |-> h, tail |-> tl]

EmptyList == [tag |-> "EmptyList"]

\* The syntactic list of the data of ds: right-nested Pairs ended by EmptyList.
RECURSIVE ListOf(_)
ListOf(ds) == IF ds = <<>> THEN EmptyList ELSE Pair(Head(ds), ListOf(Tail(ds)))

\* The data of a proper list, and whether d is one.
RECURSIVE IsProper(_)
IsProper(d) == d.tag = "EmptyList" \/ (d.tag = "Pair" /\ IsProper(d.tail))

RECURSIVE Elements(_)
Elements(d) == IF d.tag = "Pair" THEN <<d.head>> \o Elements(d.tail) ELSE <<>>

\* The number a Number's text denotes.
DigitChars == <<"0", "1", "2", "3", "4", "5", "6", "7", "8", "9">>

DigitValue(ch) == (CHOOSE i \in 1..Len(DigitChars) : DigitChars[i] = ch) - 1

RECURSIVE ParseInt(_)
ParseInt(txt) ==
  IF txt = <<>> THEN 0
  ELSE ParseInt(SubSeq(txt, 1, Len(txt) - 1)) * 10 + DigitValue(txt[Len(txt)])

\* The global environment of the test: glob.insert("lambda", ...), glob.insert("+", ...).
glob ==
  [n \in {"lambda", "+"} |->
     IF n = "lambda" THEN [kind |-> "Syntax", form |-> "Lambda"]
                     ELSE [kind |-> "PrimFunc", name |-> "+"]]

\* RuntimeValue.
BooleanValue(b) == [tag |-> "Boolean", b |-> b]

NumberValue(n) == [tag |-> "Number", n |-> n]

PrimitiveValue(n) == [tag |-> "Primitive", name |-> n]

ClosureValue(ins, env) ==
  [tag |-> "Closure", body |-> ins.body, nformals |-> ins.nformals,
   variadic |-> ins.variadic, env |-> env]

RECURSIVE ListValue(_)
ListValue(vs) ==
  IF vs = <<>> THEN [tag |-> "EmptyList"]
  ELSE [tag |-> "Pair", head |-> Head(vs), tail |-> ListValue(Tail(vs))]

\* Bytecode.
PushConstant(v) == [op |-> "PushConstant", value |-> v]

PushVariable(depth, index) == [op |-> "PushVariable", depth |-> depth, index |-> index]

MakeClosure(body, nformals, variadic, captured) ==
  [op |-> "MakeClosure", body |-> body, nformals |-> nformals, variadic |-> variadic,
   captured |-> captured]

Call(argc) == [op |-> "Call", argc |-> argc]

Return == [op |-> "Return"]

Compiled(code) == [ok |-> TRUE, code |-> code, err |-> None]

CompileError(what) == [ok |-> FALSE, code |-> <<>>, err |-> what]

\* Identifier resolution: the frames of env from the innermost out (a frame is
\* the names of its formals), then the global environment.
RECURSIVE Resolve(_, _, _)
Resolve(name, env, depth) ==
  IF env = <<>>
    THEN IF name \in DOMAIN glob THEN glob[name] ELSE [kind |-> "Unbound"]
    ELSE LET frame == Head(env)
             hits == {i \in 1..Len(frame) : frame[i] = name}
         IN  IF hits # {}
               THEN [kind |-> "Variable", depth |-> depth,
                     index |-> CHOOSE i \in hits : \A j \in hits : j <= i]
               ELSE Resolve(name, Tail(env), depth + 1)

\* The formal-parameter list of a lambda: a proper or improper list of symbols.
RECURSIVE Formals(_)
Formals(d) ==
  IF d.tag = "EmptyList" THEN [ok |-> TRUE, names |-> <<>>, variadic |-> FALSE]
  ELSE IF d.tag = "Symbol" THEN [ok |-> TRUE, names |-> <<d.name>>, variadic |-> TRUE]
  ELSE IF d.tag = "Pair" /\ d.head.tag = "Symbol"
    THEN LET r == Formals(d.tail)
         IN  [r EXCEPT !.names = <<d.head.name>> \o @]
  ELSE [ok |-> FALSE, names |-> <<>>, variadic |-> FALSE]

\* The slots of the frames outside a closure body that its code refers to.
RECURSIVE References(_)
References(code) ==
  IF code = <<>> THEN {}
  ELSE LET ins == Head(code)
           here == IF ins.op = "PushVariable"
                     THEN {[depth |-> ins.depth, index |-> ins.index]}
                   ELSE IF ins.op = "MakeClosure" THEN ins.captured
                   ELSE {}
       IN  here \cup References(Tail(code))

CapturedSlots(body) ==
  {[depth |-> sl.depth - 1, index |-> sl.index] : sl \in {r \in References(body) : r.depth >= 1}}

\* compile(datum, environment), by the shape of the datum.
RECURSIVE Compile(_, _)
RECURSIVE CompileAll(_, _)

CompileLambda(rest, env) ==
  IF rest.tag # "Pair" \/ ~IsProper(rest.tail) \/ rest.tail.tag = "EmptyList"
    THEN CompileError("ill-formed lambda")
    ELSE LET f == Formals(rest.head)
         IN  IF ~f.ok THEN CompileError("ill-formed formals")
             ELSE LET body == CompileAll(Elements(rest.tail), <<f.names>> \o env)
                  IN  IF ~body.ok THEN body
                      ELSE LET code == body.code \o <<Return>>
                           IN  Compiled(<<MakeClosure(code, Len(f.names), f.variadic,
                                                      CapturedSlots(code))>>)

Compile(d, env) ==
  IF d.tag = "Boolean" THEN Compiled(<<PushConstant(BooleanValue(d.b))>>)
  ELSE IF d.tag = "Number" THEN Compiled(<<PushConstant(NumberValue(ParseInt(d.text)))>>)
  ELSE IF d.tag = "Symbol"
    THEN LET b == Resolve(d.name, env, 0)
         IN  IF b.kind = "Variable" THEN Compiled(<<PushVariable(b.depth, b.index)>>)
             ELSE IF b.kind = "PrimFunc" THEN Compiled(<<PushConstant(PrimitiveValue(b.name))>>)
             ELSE IF b.kind = "Syntax" THEN CompileError("syntax keyword used as a value")
             ELSE CompileError("unbound identifier")
  ELSE IF d.tag = "Pair"
    THEN IF d.head.tag = "Symbol" /\ Resolve(d.head.name, env, 0).kind = "Syntax"
           THEN CompileLambda(d.tail, env)
         ELSE IF ~IsProper(d.tail) THEN CompileError("ill-formed call")
         ELSE LET callee == Compile(d.head, env)
                  args == CompileAll(Elements(d.tail), env)
              IN  IF ~callee.ok THEN callee
                  ELSE IF ~args.ok THEN args
                  ELSE Compiled(callee.code \o args.code \o <<Call(Len(Elements(d.tail)))>>)
  ELSE CompileError("ill-formed call")

\* The data of ds compiled from left to right, one after the other.
CompileAll(ds, env) ==
  IF ds = <<>> THEN Compiled(<<>>)
  ELSE LET first == Compile(Head(ds), env)
           rest == CompileAll(Tail(ds), env)
       IN  IF ~first.ok THEN first
           ELSE IF ~rest.ok THEN rest
           ELSE Compiled(first.code \o rest.code)

\* PRIM_ADD: the sum of its arguments, which must be numbers.
RECURSIVE Sum(_)
Sum(vs) == IF vs = <<>> THEN 0 ELSE Head(vs).n + Sum(Tail(vs))

PRIM_ADD(args) ==
  IF \A i \in 1..Len(args) : args[i].tag = "Number"
    THEN [ok |-> TRUE, value |-> NumberValue(Sum(args))]
    ELSE [ok |-> FALSE, value |-> None]

\* The frame that is `depth` links up the chain from frame f (0: past its end).
RECURSIVE FrameUp(_, _)
FrameUp(f, depth) ==
  IF depth = 0 \/ f = 0 THEN f ELSE FrameUp(vm_frames[f].parent, depth - 1)

\* The chain a closure's call frame extends: the one the closure dynamically
\* inherits from its caller.
call_parent_of_caller(callee, cur) == cur

\* The chain a closure's call frame extends: the one the closure captured.
call_parent(callee, cur) == callee.env

\* The values a call binds in the new frame, positionally; with an improper
\* formal list the trailing arguments are collected into a list.
Bind(callee, args) ==
  IF ~callee.variadic
    THEN IF Len(args) = callee.nformals
           THEN [ok |-> TRUE, vals |-> args] ELSE [ok |-> FALSE, vals |-> <<>>]
    ELSE IF Len(args) >= callee.nformals - 1
           THEN [ok |-> TRUE,
                 vals |-> SubSeq(args, 1, callee.nformals - 1) \o
                          <<ListValue(SubSeq(args, callee.nformals, Len(args)))>>]
           ELSE [ok |-> FALSE, vals |-> <<>>]

RuntimeError(what) == [tag |-> "RuntimeError", what |-> what]

Fail(what) ==
  /\ vm_phase' = "error"
  /\ vm_result' = RuntimeError(what)
  /\ UNCHANGED <<program, vm_code, vm_ip, vm_stack, vm_frames, vm_cur, vm_calls>>

\* The instruction the runtime is at.
Running == vm_phase = "run" /\ vm_ip <= Len(vm_code)

Instr == vm_code[vm_ip]

\* The atoms the programs are built from, and the programs.
Atoms == <<Boolean(TRUE), Boolean(FALSE), Number(<<"1">>), Number(<<"2">>)>>

AtomIds == 1..Len(Atoms)

Lambda(formals, body) == ListOf(<<Symbol("lambda"), formals, body>>)

\* ((lambda (y f) (f a)) b ((lambda (y) (lambda (x) y)) c))
ScopingProgram(a, b, cc) ==
  ListOf(<<Lambda(ListOf(<<Symbol("y"), Symbol("f")>>), ListOf(<<Symbol("f"), a>>)),
           b,
           ListOf(<<Lambda(ListOf(<<Symbol("y")>>),
                           Lambda(ListOf(<<Symbol("x")>>), Symbol("y"))),
                    cc>>)>>)

\* The program of the test lexical_scoping.
TestProgram == ScopingProgram(Number(<<"2">>), Boolean(FALSE), Boolean(TRUE))

\* ((lambda (y) ((lambda (y) y) a)) b)
ShadowProgram(a, b) ==
  ListOf(<<Lambda(ListOf(<<Symbol("y")>>),
                  ListOf(<<Lambda(ListOf(<<Symbol("y")>>), Symbol("y")), a>>)),
           b>>)

\* (+ a b)
AddProgram(a, b) == ListOf(<<Symbol("+"), a, b>>)

\* ((lambda (x y) x) a): one argument for two formals.
ArityProgram(a) ==
  ListOf(<<Lambda(ListOf(<<Symbol("x"), Symbol("y")>>), Symbol("x")), a>>)

\* ((lambda (x . r) r) a b): an improper formal list.
RestProgram(a, b) ==
  ListOf(<<Lambda(Pair(Symbol("x"), Symbol("r")), Symbol("r")), a, b>>)

\* ((lambda (x) z) a): z is bound nowhere.
UnboundProgram(a) == ListOf(<<Lambda(ListOf(<<Symbol("x")>>), Symbol("z")), a>>)

InitEval ==
  /\ \E a \in AtomIds, b \in AtomIds, cc \in AtomIds :
       \/ program = ScopingProgram(Atoms[a], Atoms[b], Atoms[cc])
       \/ program = ShadowProgram(Atoms[a], Atoms[b])
       \/ program = AddProgram(Atoms[a], Atoms[b])
       \/ program = RestProgram(Atoms[a], Atoms[b])
       \/ program = ArityProgram(Atoms[a])
       \/ program = UnboundProgram(Atoms[a])
  /\ vm_phase = "source"
  /\ vm_code = <<>>
  /\ vm_ip = 0
  /\ vm_stack = <<>>
  /\ vm_frames = <<>>
  /\ vm_cur = 0
  /\ vm_calls = <<>>
  /\ vm_result = None
  /\ input = <<>>
  /\ pos = 0
  /\ line = 1
  /\ column = 1
  /\ lookahead_buf = None
  /\ pc = "idle"
  /\ consumed = FALSE
  /\ tok_line = 0
  /\ tok_col = 0
  /\ c = None
  /\ end_of_token = FALSE
  /\ s = <<>>
  /\ result = NoResult
  /\ delivered = <<>>
  /\ call_pos = 0
  /\ tok_start = 0
  /\ results = <<>>
  /\ skipped = {}
  /\ original = NoOriginal

(***************************************************************************)
(* Compiler::new(&glob).compile(&sourcecode), then Runtime::new(bytecode). *)
(***************************************************************************)
CompileProgram ==
  /\ vm_phase = "source"
  /\ LET r == Compile(program, <<>>)
     IN  IF r.ok
           THEN /\ vm_phase' = "run"
                /\ vm_code' = r.code
                /\ vm_ip' = 1
                /\ UNCHANGED vm_result
           ELSE /\ vm_phase' = "error"
                /\ vm_result' = [tag |-> "CompileError", what |-> r.err]
                /\ UNCHANGED <<vm_code, vm_ip>>
  /\ UNCHANGED <<program, vm_stack, vm_frames, vm_cur, vm_calls>>
  /\ UNCHANGED lexer_vars

(***************************************************************************)
(* Runtime::run, one instruction at a time.                                *)
(***************************************************************************)
Exec_PushConstant ==
  /\ Running /\ Instr.op = "PushConstant"
  /\ vm_stack' = Append(vm_stack, Instr.value)
  /\ vm_ip' = vm_ip + 1
  /\ UNCHANGED <<program, vm_phase, vm_code, vm_frames, vm_cur, vm_calls, vm_result>>
  /\ UNCHANGED lexer_vars

\* A variable is read from the current frame chain at its slot.
Exec_PushVariable ==
  /\ Running /\ Instr.op = "PushVariable"
  /\ LET f == FrameUp(vm_cur, Instr.depth)
     IN  IF f = 0 \/ Instr.index > Len(vm_frames[f].vals)
           THEN Fail("unbound slot")
           ELSE /\ vm_stack' = Append(vm_stack, vm_frames[f].vals[Instr.index])
                /\ vm_ip' = vm_ip + 1
                /\ UNCHANGED <<program, vm_phase, vm_code, vm_frames, vm_cur, vm_calls,
                               vm_result>>
  /\ UNCHANGED lexer_vars

\* A closure is made: it shares the current frame chain.
Exec_MakeClosure ==
  /\ Running /\ Instr.op = "MakeClosure"
  /\ vm_stack' = Append(vm_stack, ClosureValue(Instr, vm_cur))
  /\ vm_ip' = vm_ip + 1
  /\ UNCHANGED <<program, vm_phase, vm_code, vm_frames, vm_cur, vm_calls, vm_result>>
  /\ UNCHANGED lexer_vars

\* A call pops the callee and its arguments, and dispatches on the callee.
Exec_Call ==
  /\ Running /\ Instr.op = "Call"
  /\ LET n == Instr.argc
         base == Len(vm_stack) - n - 1
         callee == vm_stack[base + 1]
         args == SubSeq(vm_stack, base + 2, Len(vm_stack))
     IN  IF callee.tag = "Primitive"
           THEN LET r == PRIM_ADD(args)
                IN  IF r.ok
                      THEN /\ vm_stack' = Append(SubSeq(vm_stack, 1, base), r.value)
                           /\ vm_ip' = vm_ip + 1
                           /\ UNCHANGED <<program, vm_phase, vm_code, vm_frames, vm_cur,
                                          vm_calls, vm_result>>
                      ELSE Fail("primitive argument type mismatch")
         ELSE IF callee.tag = "Closure"
           THEN LET b == Bind(callee, args)
                IN  IF b.ok
                      THEN /\ vm_frames' = Append(vm_frames,
                                                  [vals |-> b.vals,
                                                   parent |-> call_parent(callee, vm_cur)])
                           /\ vm_cur' = Len(vm_frames) + 1
                           /\ vm_calls' = Append(vm_calls,
                                                 [code |-> vm_code, ip |-> vm_ip + 1,
                                                  frame |-> vm_cur, base |-> base])
                           /\ vm_stack' = SubSeq(vm_stack, 1, base)
                           /\ vm_code' = callee.body
                           /\ vm_ip' = 1
                           /\ UNCHANGED <<program, vm_phase, vm_result>>
                      ELSE Fail("arity mismatch")
         ELSE Fail("calling a non-callable value")
  /\ UNCHANGED lexer_vars

\* The body of a closure is complete: the caller's frame is restored and the
\* result pushed.
Exec_Return ==
  /\ Running /\ Instr.op = "Return"
  /\ LET caller == vm_calls[Len(vm_calls)]
     IN  /\ vm_stack' = Append(SubSeq(vm_stack, 1, caller.base), vm_stack[Len(vm_stack)])
         /\ vm_code' = caller.code
         /\ vm_ip' = caller.ip
         /\ vm_cur' = caller.frame
         /\ vm_calls' = SubSeq(vm_calls, 1, Len(vm_calls) - 1)
  /\ UNCHANGED <<program, vm_phase, vm_frames, vm_result>>
  /\ UNCHANGED lexer_vars

\* The outermost code sequence is complete: the final pushed value is the result.
Halt ==
  /\ vm_phase = "run" /\ vm_ip > Len(vm_code)
  /\ vm_phase' = "done"
  /\ vm_result' = vm_stack[Len(vm_stack)]
  /\ UNCHANGED <<program, vm_code, vm_ip, vm_stack, vm_frames, vm_cur, vm_calls>>
  /\ UNCHANGED lexer_vars

NextEval ==
  \/ CompileProgram
  \/ Exec_PushConstant
  \/ Exec_PushVariable
  \/ Exec_MakeClosure
  \/ Exec_Call
  \/ Exec_Return
  \/ Halt

SpecEval == InitEval /\ [][NextEval]_vars

\* The runtime value of an atom.
AtomValue(d) == IF d.tag = "Boolean" THEN BooleanValue(d.b) ELSE NumberValue(ParseInt(d.text))

(***************************************************************************)
(* C1: scoping is lexical.  The closure (lambda (x) y), created where y is *)
(* bound to c and called where y is bound to b, returns c: the program     *)
(* ((lambda (y f) (f a)) b ((lambda (y) (lambda (x) y)) c)) never fails    *)
(* and its value is c, whatever a and b are; in particular the program of  *)
(* the test, with a = 2, b = #f and c = #t, yields #t.                     *)
(***************************************************************************)
C1_LexicalScoping ==
  /\ \A a \in AtomIds, b \in AtomIds, cc \in AtomIds :
       program = ScopingProgram(Atoms[a], Atoms[b], Atoms[cc]) =>
         /\ vm_phase # "error"
         /\ vm_phase = "done" => vm_result = AtomValue(Atoms[cc])
  /\ (program = TestProgram /\ vm_phase = "done") => vm_result = BooleanValue(TRUE)

\* The program of the test has run to its end.
C1_Witness ==
  /\ program = TestProgram
  /\ vm_phase = "done"
  /\ Len(vm_frames) = 3

(***************************************************************************)
(*                         The claims                                      *)
(***************************************************************************)

\* lex_token has returned, and result is what it returned.
Returned == pc = "idle" /\ result # NoResult

\* The character lookahead_buf holds, as a text.
Buffered == IF lookahead_buf = None THEN <<>> ELSE <<lookahead_buf>>

\* How many characters have left the stream and are not in lookahead_buf.
Taken == pos - Len(Buffered)

\* The 1-based line and column of the k-th character of the input
\* (k = Len(input) + 1: the position just past its last character).
NewlinesBefore(k) == {i \in 1..(k - 1) : input[i] = "\n"}

LineAt(k) == 1 + Cardinality(NewlinesBefore(k))

ColumnAt(k) ==
  LET nl == NewlinesBefore(k)
  IN  IF nl = {} THEN k ELSE k - (CHOOSE i \in nl : \A j \in nl : j <= i)

\* The character at index k is whitespace, or the input ends before it.
EndsAt(k) == k > Len(input) \/ input[k] \in Whitespace

\* The last index of the longest run of characters of f that starts at k
\* (k - 1 when that run is empty).
RECURSIVE RunEnd(_, _)
RunEnd(k, f) == IF k <= Len(input) /\ input[k] \in f THEN RunEnd(k + 1, f) ELSE k - 1

\* The token began at a character of the input, and that character is ch.
StartsWith(ch) == tok_start \in 1..Len(input) /\ input[tok_start] = ch

\* w after the rest of a line comment: after its first newline, or nothing.
RECURSIVE AfterComment(_)
AfterComment(w) ==
  IF w = <<>> THEN <<>>
  ELSE IF Head(w) = "\n" THEN Tail(w)
  ELSE AfterComment(Tail(w))

\* w is whitespace and line comments only.
RECURSIVE IsBlank(_)
IsBlank(w) ==
  IF w = <<>> THEN TRUE
  ELSE IF Head(w) \in Whitespace THEN IsBlank(Tail(w))
  ELSE IF Head(w) = ";" THEN IsBlank(AfterComment(Tail(w)))
  ELSE FALSE

(***************************************************************************)
(* C2: every token lex_token returns carries the 1-based line and column   *)
(* of its first character in the input, and an EOF token the position just *)
(* past the last character of the input.                                   *)
(***************************************************************************)
C2_TokenPosition ==
  (Returned /\ result.ok) =>
    LET k == IF result.token = "EOF" THEN Len(input) + 1 ELSE tok_start
    IN  result.line = LineAt(k) /\ result.column = ColumnAt(k)

(***************************************************************************)
(* C3: between lex_token calls, (line, column) is the position after every *)
(* character that was taken out of the input and not left in the lookahead *)
(* buffer, the newline that ends a comment included.                       *)
(***************************************************************************)
C3_PositionTracksTaken ==
  pc = "idle" => (line = LineAt(Taken + 1) /\ column = ColumnAt(Taken + 1))

(***************************************************************************)
(* C4: one character of lookahead, and peeking never consumes.  The buffer *)
(* holds the last character read and every character read before it was   *)
(* delivered once, in order; a lookahead() or is_end_of_token() step       *)
(* leaves line and column alone, delivers nothing and reads at most one    *)
(* character; and a buffered character stays the next one until it is the  *)
(* first that a later consume() or read_while() delivers, also across the  *)
(* return of one lex_token call and the start of the next.                 *)
(***************************************************************************)
C4_NothingSkipped ==
  /\ lookahead_buf # None => (pos >= 1 /\ lookahead_buf = input[pos])
  /\ delivered \o Buffered = SubSeq(input, 1, pos)

C4_PeekStep ==
  pc \in {"ws_peek", "eot", "minus_peek"} =>
    /\ line' = line
    /\ column' = column
    /\ delivered' = delivered
    /\ pos' \in {pos, pos + 1}
    /\ lookahead_buf # None => (lookahead_buf' = lookahead_buf /\ pos' = pos)

C4_BufferedIsNext ==
  lookahead_buf # None =>
    \/ delivered' = delivered /\ lookahead_buf' = lookahead_buf /\ pos' = pos
    \/ Len(delivered') > Len(delivered) /\ delivered'[Len(delivered) + 1] = lookahead_buf

\* C4: nothing is skipped or delivered twice in any state, and every step
\* keeps to the rules of peeking.
C4_Lookahead == [](C4_NothingSkipped) /\ [][C4_PeekStep /\ C4_BufferedIsNext]_vars

\* "+" was returned on the strength of a peeked whitespace character, which
\* is in the buffer as the next call starts.
C4_Witness ==
  /\ pc = "ws_read"
  /\ result.ok /\ result.token = "Identifier" /\ result.text = <<"+">>
  /\ lookahead_buf \in Whitespace

(***************************************************************************)
(* C5: a call made when only whitespace and line comments remain returns   *)
(* the EOF token, not an error; and once EOF has been returned, nothing of *)
(* the lexer changes any more and every later call returns the same EOF.   *)
(***************************************************************************)
C5_BlankIsEOF ==
  (Returned /\ IsBlank(SubSeq(input, call_pos + 1, Len(input)))) =>
    (result.ok /\ result.token = "EOF")

C5_EOFIsStable ==
  (result.ok /\ result.token = "EOF") => UNCHANGED <<line, column, lookahead_buf, pos, result>>

\* C5: blank remaining input gives EOF, and EOF once returned is final.
C5_EndOfInput == [](C5_BlankIsEOF) /\ [][C5_EOFIsStable]_vars

\* EOF was returned by a call that skipped a last comment with no newline.
C5_Witness ==
  /\ Returned /\ result.ok /\ result.token = "EOF"
  /\ call_pos < Len(input)
  /\ \E i \in (call_pos + 1)..Len(input) :
       input[i] = ";" /\ \A j \in i..Len(input) : input[j] # "\n"

(***************************************************************************)
(* C6: a token that is `#` or `#\` with the input ending right after it is *)
(* the error UnexpectedEOF at the lexer's line and column, not a token.    *)
(***************************************************************************)
C6_UnexpectedEOF ==
  (/\ Returned
   /\ StartsWith("#")
   /\ \/ tok_start = Len(input)
      \/ tok_start + 1 = Len(input) /\ input[tok_start + 1] = "\\") =>
    (~result.ok /\ result.kind = "UnexpectedEOF"
       /\ result.line = line /\ result.column = column)

C6_Witness ==
  /\ Returned /\ ~result.ok /\ result.kind = "UnexpectedEOF"
  /\ Len(input) >= 3 /\ input[Len(input)] = "\\"

(***************************************************************************)
(* C7: a token that begins with `+` is Identifier("+") if whitespace or    *)
(* the end of the input follows the `+`, and an error otherwise.           *)
(***************************************************************************)
C7_Plus ==
  (Returned /\ StartsWith("+")) =>
    IF EndsAt(tok_start + 1)
      THEN result.ok /\ result.token = "Identifier" /\ result.text = <<"+">>
      ELSE ~result.ok

C7_Witness ==
  /\ Returned /\ StartsWith("+") /\ ~result.ok
  /\ input[tok_start + 1] = ")"

(***************************************************************************)
(* C8: a token that begins with `-` is Identifier("-") if whitespace or    *)
(* the end of the input follows; if `>` follows, it is the Identifier of   *)
(* `->` and the longest run of subsequent characters after it; and it is   *)
(* an error otherwise.                                                     *)
(***************************************************************************)
C8_Minus ==
  (Returned /\ StartsWith("-")) =>
    IF EndsAt(tok_start + 1)
      THEN result.ok /\ result.token = "Identifier" /\ result.text = <<"-">>
    ELSE IF input[tok_start + 1] = ">"
      THEN /\ result.ok /\ result.token = "Identifier"
           /\ result.text = SubSeq(input, tok_start, RunEnd(tok_start + 2, Subsequent))
    ELSE ~result.ok

C8_Witness ==
  /\ Returned /\ StartsWith("-") /\ result.ok
  /\ result.text = <<"-", ">", "b", "a", "r">>

(***************************************************************************)
(* C9: Dot is returned exactly for a token that begins with `.` and is     *)
(* followed by whitespace or the end of the input; a token that begins     *)
(* with `.` and is followed by anything else is an error; and an           *)
(* Identifier takes in every `.` that follows its characters, so the       *)
(* character after an Identifier is never `.`.                             *)
(***************************************************************************)
C9_Dot ==
  /\ (Returned /\ result.ok /\ result.token = "Dot") =>
       (StartsWith(".") /\ EndsAt(tok_start + 1))
  /\ (Returned /\ StartsWith(".")) =>
       IF EndsAt(tok_start + 1) THEN result.ok /\ result.token = "Dot" ELSE ~result.ok
  /\ (Returned /\ result.ok /\ result.token = "Identifier") =>
       LET after == tok_start + Len(result.text)
       IN  /\ result.text = SubSeq(input, tok_start, after - 1)
           /\ after <= Len(input) => input[after] # "."

C9_Witness ==
  /\ Returned /\ result.ok /\ result.token = "Dot"
  /\ tok_start < Len(input)

(***************************************************************************)
(* C10: after `#`, t or T is True, f or F is False, a backslash is the     *)
(* Character of the next character, whatever it is, and the longest run of *)
(* alphanumeric characters after it; any other character is an error.      *)
(***************************************************************************)
C10_Hash ==
  (Returned /\ StartsWith("#") /\ tok_start < Len(input)) =>
    LET c0 == input[tok_start + 1]
    IN  IF c0 \in {"t", "T"} THEN result.ok /\ result.token = "True"
        ELSE IF c0 \in {"f", "F"} THEN result.ok /\ result.token = "False"
        ELSE IF c0 = "\\"
          THEN tok_start + 2 <= Len(input) =>
                 /\ result.ok /\ result.token = "Character"
                 /\ result.text = SubSeq(input, tok_start + 2,
                                         RunEnd(tok_start + 3, UnicodeAlphanumeric))
        ELSE ~result.ok

C10_Witness ==
  /\ Returned /\ result.ok /\ result.token = "Character"
  /\ result.text = <<"n", "e", "w", "l", "i", "n", "e">>
  /\ lookahead_buf = " "

\* w is whitespace and line comments only, and every comment in it has the
\* newline that ends it.
RECURSIVE WholeComments(_)
WholeComments(w) ==
  IF w = <<>> THEN TRUE
  ELSE IF Head(w) \in Whitespace THEN WholeComments(Tail(w))
  ELSE IF Head(w) = ";"
    THEN (\E i \in 1..Len(w) : w[i] = "\n") /\ WholeComments(AfterComment(Tail(w)))
  ELSE FALSE

\* The call sites of lex_token after its first character was consumed.
TokenSites ==
  {"eot", "classify", "minus_peek", "ident", "hash", "char", "char_rest", "numeric"}

(***************************************************************************)
(* C11: when consume_whitespace has returned Ok, the characters it took    *)
(* are whitespace and whole line comments, in any order and number, and    *)
(* the next character of the input, if there is one, is in the buffer and  *)
(* is neither whitespace nor `;`.  So the character that lex_token then    *)
(* consumes and classifies is the character of the input right after those *)
(* whitespace runs and comments: never whitespace, never `;`, never a      *)
(* character of a comment.                                                 *)
(***************************************************************************)
C11_AfterWhitespace ==
  /\ pc = "first" =>
       /\ IsBlank(SubSeq(input, call_pos + 1, Taken))
       /\ lookahead_buf = None => Taken = Len(input)
       /\ lookahead_buf # None =>
            /\ Taken < Len(input)
            /\ lookahead_buf = input[Taken + 1]
            /\ lookahead_buf \notin Whitespace \cup {";"}
            /\ WholeComments(SubSeq(input, call_pos + 1, Taken))
  /\ pc \in TokenSites =>
       /\ tok_start \in 1..Len(input)
       /\ c = input[tok_start]
       /\ c \notin Whitespace \cup {";"}
       /\ WholeComments(SubSeq(input, call_pos + 1, tok_start - 1))

\* The first character of a token is classified after whitespace, a
\* comment, more whitespace and another comment.
C11_Witness ==
  /\ pc = "classify"
  /\ c = "b"
  /\ Cardinality({i \in (call_pos + 1)..(tok_start - 1) : input[i] = ";"}) = 2
  /\ Cardinality({i \in (call_pos + 1)..(tok_start - 1) : input[i] = " "}) = 2

\* The values of a sequence of results: each token or error without its
\* line and column.
Values(rs) ==
  [i \in 1..Len(rs) |->
     [ok |-> rs[i].ok, token |-> rs[i].token, text |-> rs[i].text,
      kind |-> rs[i].kind, ch |-> rs[i].ch]]

(***************************************************************************)
(* C12: a line comment put in right after a whitespace character between   *)
(* tokens, or before the first token, changes nothing but positions: call  *)
(* by call, the Lexer on the text with the comment returns the same token  *)
(* values and the same errors, at the same places in the sequence, as the  *)
(* Lexer on the text without it, and returns EOF after as many calls.      *)
(***************************************************************************)
C12_CommentsTransparent ==
  original # NoOriginal =>
    /\ Len(results) <= Len(original.results)
    /\ Values(results) = SubSeq(Values(original.results), 1, Len(results))
    /\ Ended => Len(results) = Len(original.results)

\* `(+ 1 ; t` and a newline, then `2)`: the five tokens of `(+ 1 2)`, and EOF.
C12_Witness ==
  /\ original # NoOriginal
  /\ original.stream = <<"(", "+", " ", "1", " ", "2", ")">>
  /\ original.at = 5
  /\ Len(input) = 11
  /\ Ended
  /\ Len(results) = 6
  /\ results[4].token = "Numeric" /\ results[4].text = <<"2">>

(***************************************************************************)
(* C13: an InvalidCharacter error names the character of the input that    *)
(* made the text invalid and the line and column of that character.  The   *)
(* statement is taken at its weakest: the character is either the first    *)
(* character of the token or the one after it, whichever the error names,  *)
(* and the line and column of the error are those of the character named.  *)
(***************************************************************************)
C13_InvalidCharacter ==
  (Returned /\ ~result.ok /\ result.kind = "InvalidCharacter") =>
    \E k \in {tok_start, tok_start + 1} :
      /\ k \in 1..Len(input)
      /\ result.ch = input[k]
      /\ result.line = LineAt(k)
      /\ result.column = ColumnAt(k)

\* The value of a token: it without its line and column.
TokenValue(tk, txt) ==
  [ok |-> TRUE, token |-> tk, text |-> txt, kind |-> None, ch |-> None]

\* Texts that are one atom, and the token each is.
SingleAtoms ==
  { [source |-> <<"f", "o", "o">>, value |-> TokenValue("Identifier", <<"f", "o", "o">>)],
    [source |-> <<"-", ">", "b", "a", "r">>,
     value |-> TokenValue("Identifier", <<"-", ">", "b", "a", "r">>)],
    [source |-> <<"+">>, value |-> TokenValue("Identifier", <<"+">>)],
    [source |-> <<"-">>, value |-> TokenValue("Identifier", <<"-">>)],
    [source |-> <<"1", "2", "3">>, value |-> TokenValue("Numeric", <<"1", "2", "3">>)],
    [source |-> <<"#", "t">>, value |-> TokenValue("True", <<>>)],
    [source |-> <<"#", "f">>, value |-> TokenValue("False", <<>>)],
    [source |-> <<"#", "\\", "a">>, value |-> TokenValue("Character", <<"a">>)] }

(***************************************************************************)
(* C14: an Identifier is `+`, `-`, or an initial character or `->` and     *)
(* then subsequent characters only; its text is the characters of the      *)
(* input from the one the token began at, as they are; and it is the       *)
(* longest such text: the character after it, if any, is not a subsequent  *)
(* character.  And a text that is one atom (foo, ->bar, +, -, 123, #t, #f, *)
(* #\a) gives that one token and then EOF.                                 *)
(***************************************************************************)
C14_Identifier ==
  /\ (Returned /\ result.ok /\ result.token = "Identifier") =>
       LET txt == result.text
           n == Len(txt)
           after == tok_start + n
       IN  /\ n >= 1
           /\ tok_start >= 1 /\ after - 1 <= Len(input)
           /\ txt = SubSeq(input, tok_start, after - 1)
           /\ \/ txt \in {<<"+">>, <<"-">>}
              \/ txt[1] \in Initial /\ \A i \in 2..n : txt[i] \in Subsequent
              \/ /\ n >= 2 /\ txt[1] = "-" /\ txt[2] = ">"
                 /\ \A i \in 3..n : txt[i] \in Subsequent
           /\ after <= Len(input) => input[after] \notin Subsequent
  /\ \A a \in SingleAtoms :
       input = a.source =>
         /\ Len(results) <= 2
         /\ Values(results) = SubSeq(<<a.value, TokenValue("EOF", <<>>)>>, 1, Len(results))

\* `->bar` was lexed to its end: one Identifier, and EOF.
C14_Witness ==
  /\ input = <<"-", ">", "b", "a", "r">>
  /\ Ended
  /\ Len(results) = 2
  /\ results[1].token = "Identifier" /\ Len(results[1].text) = 5

(***************************************************************************)
(* C15: a Numeric token begins at a decimal digit and its text is that     *)
(* digit and the longest run of decimal digits after it, as they are in    *)
(* the input: digits 0-9 only, and the character after it is not a digit.  *)
(***************************************************************************)
C15_NumericDigits ==
  (Returned /\ result.ok /\ result.token = "Numeric") =>
    LET txt == result.text
        n == Len(txt)
        after == tok_start + n
    IN  /\ n >= 1
        /\ tok_start >= 1 /\ after - 1 <= Len(input)
        /\ input[tok_start] \in Digits
        /\ txt = SubSeq(input, tok_start, after - 1)
        /\ \A i \in 1..n : txt[i] \in Digits
        /\ after - 1 = RunEnd(tok_start + 1, Digits)
        /\ after <= Len(input) => input[after] \notin Digits

\* How far a call site is from the return of lex_token, in call sites.
Rank(p) ==
  CASE p = "ws_read" -> 12
    [] p = "ws_peek" -> 11
    [] p = "ws_comment" -> 10
    [] p = "first" -> 9
    [] p = "eot" -> 8
    [] p = "classify" -> 7
    [] p \in {"minus_peek", "hash"} -> 6
    [] p = "char" -> 5
    [] p \in {"ident", "char_rest", "numeric"} -> 4
    [] OTHER -> 0

\* The result is the token of the end of input.
IsEOF(r) == r.ok /\ r.token = "EOF"

(***************************************************************************)
(* C16: every lex_token call comes to its return.  Inside a call there is  *)
(* always a next step, and every step either takes a character out of the  *)
(* input or moves to a call site nearer the return; a Lexer never takes    *)
(* more characters than the input has.  A call that returns a token other  *)
(* than EOF, or an error, has taken at least one character.  So the calls  *)
(* that return before EOF are no more than the characters taken, and EOF   *)
(* is returned by the call of number Len(input) + 1 at the latest.         *)
(***************************************************************************)
C16_NeverStuck == pc # "idle" => ENABLED Next

C16_StepDescends ==
  pc # "idle" => \/ Taken' > Taken
                 \/ Taken' = Taken /\ Rank(pc') < Rank(pc)

C16_ReturnTook == (Returned /\ ~IsEOF(result)) => Taken > call_pos

C16_CallsBound ==
  /\ Taken \in 0..Len(input)
  /\ Len(results) - (IF Ended THEN 1 ELSE 0) <= Taken
  /\ Len(results) <= Len(input) + 1
  /\ (pc = "idle" /\ Taken = Len(input) /\ ~Ended) => ENABLED LexToken_Call

C16_Progress ==
  /\ [](C16_NeverStuck /\ C16_ReturnTook /\ C16_CallsBound)
  /\ [][C16_StepDescends]_vars

\* EOF came at the call of number Len(input) + 1, after tokens and an error.
C16_Witness ==
  /\ Returned /\ IsEOF(result)
  /\ Len(input) >= 3
  /\ Len(results) = Len(input) + 1
  /\ \E i \in 1..Len(results) : ~results[i].ok
  /\ \E i \in 1..Len(results) : results[i].ok /\ ~IsEOF(results[i])

=============================================================================
